---- MODULE Spec2Model ----
(***************************************************************************)
(* A model of src/main.py: the Flask relay that turns a POST /chat body    *)
(* into a prompt (generate_prompt), sends it to the Yi provider            *)
(* (call_Yi_api), extracts the reply text (extract_text) and returns the   *)
(* reply with the extended conversation history (process_chat, chat).      *)
(*                                                                         *)
(* Python values are tagged records, one field name per type so that       *)
(* values of different types are never compared field by field:            *)
(*   None  [t |-> "NoneType"]            str   [t |-> "str",  s |-> "..."] *)
(*   int   [t |-> "int",  n |-> 7]       bool  [t |-> "bool", b |-> TRUE]  *)
(*   list  [t |-> "list", a |-> <<..>>]  dict  [t |-> "dict", o |-> f]     *)
(* Lists that the handler creates or receives live in `heap` and are       *)
(* referred to by address, so that `history + [...]` (a new list) and      *)
(* `.append` (in place) are different things, as they are in Python.       *)
(***************************************************************************)
EXTENDS Integers, Sequences, FiniteSets, TLC

VARIABLES
    pc,                     \* per request: the handler's position
    body,                   \* per request: the JSON body the client sent
    upstream,               \* per request: what the provider answers to its call
    user_input,             \* chat(): data.get('message', "")
    role,                   \* chat(): data.get('role', default_role)
    history,                \* chat(): data.get('conversation_history', [])
    prompt,                 \* process_chat(): the prompt generate_prompt built
    conversation_history,   \* process_chat(): address of the list generate_prompt built
    bot_reply,              \* process_chat(): first component of call_Yi_api's result
    error,                  \* process_chat(): second component of call_Yi_api's result
    response,               \* per request: what the HTTP layer sends back
    outbound,               \* per request: the outbound HTTP calls made so far
    heap,                   \* the process's list objects, by address
    doc,                    \* extract_text called on its own: the argument
    text                    \* extract_text called on its own: the result

vars == <<pc, body, upstream, user_input, role, history, prompt,
          conversation_history, bot_reply, error, response, outbound, heap,
          doc, text>>

-----------------------------------------------------------------------------
(* Bounds of the model. *)

\* Requests handled concurrently under Spec.
NumReq == 2

\* Longest conversation_history a client supplies under SpecOne.
MaxHist == 2

Reqs == 1 .. NumReq

-----------------------------------------------------------------------------
(* Python values. *)

None == [t |-> "NoneType"]
Str(s) == [t |-> "str", s |-> s]
PyInt(n) == [t |-> "int", n |-> n]
Bool(b) == [t |-> "bool", b |-> b]
List(a) == [t |-> "list", a |-> a]
Dict(o) == [t |-> "dict", o |-> o]
EmptyDict == Dict(<<>>)

\* A list held in the heap, as a local variable sees it.
Ref(addr) == [t |-> "list", ref |-> addr]

\* A local variable that has not been assigned yet.
Unset == [t |-> "unset"]

\* A key that an object does not have.
Absent == [t |-> "absent"]

\* The dict with the given <<key, value>> pairs, leaving out the absent ones.
Obj(pairs) ==
    LET present == {p \in pairs : p[2] # Absent}
        keys == {p[1] : p \in present}
    IN IF keys = {} THEN EmptyDict
       ELSE Dict([k \in keys |-> (CHOOSE p \in present : p[1] = k)[2]])

\* bool(x), as `if x:` computes it.
Truthy(x) ==
    CASE x.t = "NoneType" -> FALSE
      [] x.t = "str" -> x.s # ""
      [] x.t = "int" -> x.n # 0
      [] x.t = "bool" -> x.b
      [] x.t = "list" -> x.a # <<>>
      [] x.t = "dict" -> DOMAIN x.o # {}

Digit(d) == SubSeq("0123456789", d + 1, d + 1)

RECURSIVE NatStr(_)
NatStr(n) == IF n < 10 THEN Digit(n) ELSE NatStr(n \div 10) \o Digit(n % 10)

RECURSIVE JoinStr(_, _)
\* sep.join(strs) for a sequence of TLA+ strings.
JoinStr(strs, sep) ==
    IF strs = <<>> THEN ""
    ELSE IF Len(strs) = 1 THEN strs[1]
    ELSE strs[1] \o sep \o JoinStr(Tail(strs), sep)

RECURSIVE PyRepr(_)
\* repr(x). Exact for strings without quotes or escapes and for dicts of at
\* most one key, which are the only ones the model formats.
PyRepr(x) ==
    CASE x.t = "NoneType" -> "None"
      [] x.t = "str" -> "'" \o x.s \o "'"
      [] x.t = "int" -> IF x.n < 0 THEN "-" \o NatStr(-x.n) ELSE NatStr(x.n)
      [] x.t = "bool" -> IF x.b THEN "True" ELSE "False"
      [] x.t = "list" ->
            "[" \o JoinStr([i \in 1 .. Len(x.a) |-> PyRepr(x.a[i])], ", ") \o "]"
      [] x.t = "dict" ->
            IF DOMAIN x.o = {} THEN "{}"
            ELSE LET k == CHOOSE k \in DOMAIN x.o : TRUE
                 IN "{'" \o k \o "': " \o PyRepr(x.o[k]) \o "}"

\* str(x), which is what an f-string field {x} inserts.
PyStr(x) == IF x.t = "str" THEN x.s ELSE PyRepr(x)

\* The outcome of an expression: a value, or an exception with its str(e).
Ok(v) == [ok |-> TRUE, v |-> v]
Raise(type, msg) == [ok |-> FALSE, type |-> type, msg |-> msg]

\* x.get(key, default): dict.get on a dict, AttributeError on anything else.
PyGet(x, key, default) ==
    IF x.t = "dict"
    THEN Ok(IF key \in DOMAIN x.o THEN x.o[key] ELSE default)
    ELSE Raise("AttributeError",
               "'" \o x.t \o "' object has no attribute 'get'")

\* x[0]
PyIndex0(x) ==
    CASE x.t = "list" ->
            IF x.a = <<>> THEN Raise("IndexError", "list index out of range")
            ELSE Ok(x.a[1])
      [] x.t = "str" ->
            IF x.s = "" THEN Raise("IndexError", "string index out of range")
            ELSE Ok(Str(SubSeq(x.s, 1, 1)))
      [] x.t = "dict" ->
            \* the keys of a JSON object are strings, so the key 0 is never there
            Raise("KeyError", "0")
      [] OTHER ->
            Raise("TypeError", "'" \o x.t \o "' object is not subscriptable")

-----------------------------------------------------------------------------
(* Program constants. *)

default_role ==
    "\nRole: You are a knowledgeable travel guide and planner. \n"
    \o "Your task is to help clients plan their trips to any location worldwide. \n"
    \o "When engaging with clients, ask them for more details if the information they provide is insufficient for planning the itinerary. \n"
    \o "Gather essential details such as their travel dates, preferred destinations, interests (e.g., culture, adventure, relaxation), \n"
    \o "budget, and any special requests. Your responses should be friendly, informative, and proactive in guiding them through the planning process.\n"

ClarifyText == "I'm not sure how to respond to that. Could you clarify?"
NoPartsText == "I'm having trouble finding the right words. Please try again."
NoChoicesText == "I'm sorry, but I couldn't generate a response at the moment."
SomethingWrong == "Something went wrong: "
RequestFailedText ==
    "I'm sorry, I couldn't process your request at the moment. Please try again later."

-----------------------------------------------------------------------------
(* extract_text, lines 55-80.  Every exception raised inside the try block *)
(* is caught by `except Exception` and turned into a string.               *)

Caught(e) == Str(SomethingWrong \o e.msg)

\* Lines 70-76: the `choices` shape.
extract_choices(response_data) ==
    LET g == PyGet(response_data, "choices", List(<<>>)) IN
    IF ~g.ok THEN Caught(g)
    ELSE IF Truthy(g.v)
    THEN LET c == PyIndex0(g.v) IN
         IF ~c.ok THEN Caught(c)
         ELSE LET m == PyGet(c.v, "message", EmptyDict) IN
              IF ~m.ok THEN Caught(m)
              ELSE LET x == PyGet(m.v, "content", Str(ClarifyText)) IN
                   IF ~x.ok THEN Caught(x) ELSE x.v
    ELSE Str(NoChoicesText)

\* Lines 62-68: `candidates` is truthy.
extract_candidates(candidates) ==
    LET c == PyIndex0(candidates) IN
    IF ~c.ok THEN Caught(c)
    ELSE LET content == PyGet(c.v, "content", EmptyDict) IN
         IF ~content.ok THEN Caught(content)
         ELSE LET parts == PyGet(content.v, "parts", List(<<>>)) IN
              IF ~parts.ok THEN Caught(parts)
              ELSE IF Truthy(parts.v)
              THEN LET p == PyIndex0(parts.v) IN
                   IF ~p.ok THEN Caught(p)
                   ELSE LET x == PyGet(p.v, "text", Str(ClarifyText)) IN
                        IF ~x.ok THEN Caught(x) ELSE x.v
              ELSE Str(NoPartsText)

\* extract_text with the priority of the two shapes swapped.
extract_text_choices_first(response_data) ==
    LET g == PyGet(response_data, "choices", List(<<>>)) IN
    IF ~g.ok THEN Caught(g)
    ELSE IF Truthy(g.v) THEN extract_choices(response_data)
    ELSE LET c == PyGet(response_data, "candidates", List(<<>>)) IN
         IF Truthy(c.v) THEN extract_candidates(c.v) ELSE Str(NoChoicesText)

\* extract_text telling a `candidates` that is present but empty from one
\* that is missing, and answering the former like an empty `parts`.
extract_text_empty_candidates(response_data) ==
    LET g == PyGet(response_data, "candidates", List(<<>>)) IN
    IF ~g.ok THEN Caught(g)
    ELSE IF Truthy(g.v) THEN extract_candidates(g.v)
    ELSE IF "candidates" \in DOMAIN response_data.o THEN Str(NoPartsText)
    ELSE extract_choices(response_data)

extract_text(response_data) ==
    LET g == PyGet(response_data, "candidates", List(<<>>)) IN
    IF ~g.ok THEN Caught(g)
    ELSE IF Truthy(g.v) THEN extract_candidates(g.v)
    ELSE extract_choices(response_data)

-----------------------------------------------------------------------------
(* generate_prompt, lines 83-92, on the contents of `history`.  It returns *)
(* the prompt and the contents of the new list `history + [...]`, or the   *)
(* TypeError that `+` or `join` raises.                                    *)

generate_prompt(u, ro, h) ==
    LET hist == IF h.t = "NoneType" THEN List(<<>>) ELSE h IN
    IF hist.t # "list"
    THEN Raise("TypeError",
               IF hist.t = "str"
               THEN "can only concatenate str (not \"list\") to str"
               ELSE "unsupported operand type(s) for +: '" \o hist.t
                    \o "' and 'list'")
    ELSE LET ch == Append(hist.a, Str("User: " \o PyStr(u))) IN
         IF \E i \in 1 .. Len(ch) : ch[i].t # "str"
         THEN LET i == CHOOSE i \in 1 .. Len(ch) :
                          /\ ch[i].t # "str"
                          /\ \A j \in 1 .. i - 1 : ch[j].t = "str"
              IN Raise("TypeError",
                       "sequence item " \o NatStr(i - 1)
                       \o ": expected str instance, " \o ch[i].t \o " found")
         ELSE Ok([prompt |-> PyStr(ro) \o "\n"
                             \o JoinStr([i \in 1 .. Len(ch) |-> ch[i].s], "\n")
                             \o "\nAssistant:",
                  conversation_history |-> ch])

-----------------------------------------------------------------------------
(* The upstream documents extract_text is given: every level of the two    *)
(* shapes is well-formed, missing, empty, or of another JSON type.         *)

\* Values of a JSON type the shapes do not expect at a level.
OddValues == {None, Str("ab"), Str(""), PyInt(5), PyInt(0), Bool(TRUE),
              EmptyDict, Dict([other |-> Str("x")])}

TextValues == {Str("Paris is lovely"), None, PyInt(5), Absent}
PartItems == {Obj({<<"text", x>>}) : x \in TextValues} \cup {None, Str("x")}
PartsValues ==
    {List(<<p>>) : p \in PartItems}
    \cup {List(<<>>), Absent,
          List(<<Dict([text |-> Str("first")]), Dict([text |-> Str("second")])>>)}
    \cup OddValues
ContentValues ==
    {Obj({<<"parts", p>>}) : p \in PartsValues}
    \cup {Absent, None, Str("ab"), List(<<>>)}
CandidateItems ==
    {Obj({<<"content", c>>}) : c \in ContentValues} \cup {None, Str("ab")}
CandidatesValues ==
    {List(<<c>>) : c \in CandidateItems}
    \cup {List(<<>>), Absent,
          List(<<Dict([content |-> Dict([parts |-> List(<<Dict([text |-> Str("first")])>>)])]),
                 Dict([content |-> Dict([parts |-> List(<<>>)])])>>)}
    \cup OddValues

MessageContents == {Str("Hello"), None, PyInt(5), Absent}
MessageValues ==
    {Obj({<<"content", x>>}) : x \in MessageContents} \cup {None, Str("x")}
ChoiceItems == {Obj({<<"message", m>>}) : m \in MessageValues} \cup {None, Str("x")}
ChoicesValues ==
    {List(<<c>>) : c \in ChoiceItems}
    \cup {List(<<>>), Absent, None, Str("ab"), PyInt(5), EmptyDict}

Docs ==
    {Obj({<<"candidates", c>>, <<"choices", d>>}) :
        c \in CandidatesValues, d \in ChoicesValues}
    \cup {None, List(<<>>), List(<<EmptyDict>>), Str("x"), PyInt(5), Bool(TRUE)}

\* The Gemini shape and the chat-completions shape around a text.
GeminiDoc(x) ==
    Dict([candidates |-> List(<<Dict([content |->
        Dict([parts |-> List(<<Dict([text |-> x])>>)])])>>)])
ChoicesDoc(x) ==
    Dict([choices |-> List(<<Dict([message |-> Dict([content |-> x])])>>)])

-----------------------------------------------------------------------------
(* What the provider does with a call: the transport or raise_for_status   *)
(* raises a RequestException whose str() is `detail`; or the call returns  *)
(* 2xx with a JSON document; or it returns 2xx with a body that is no JSON.*)

Failed(detail) == [kind |-> "error", detail |-> detail]
Replied(d) == [kind |-> "ok", json |-> d]
NotJson == [kind |-> "notjson"]
NoCall == [kind |-> "none"]

ErrorDetails ==
    {"", "HTTPSConnectionPool(host='api.lingyiwanwu.com', port=443): Read timed out.",
     "500 Server Error: Internal Server Error for url: https://api.lingyiwanwu.com/v1/chat/completions"}

\* Under SpecOne, one request and every kind of answer.
UpstreamOne ==
    {Failed(e) : e \in ErrorDetails}
    \cup {NotJson}
    \cup {Replied(d) : d \in
            {GeminiDoc(Str("Paris is lovely")), ChoicesDoc(Str("Hello")),
             GeminiDoc(None), ChoicesDoc(PyInt(5)), GeminiDoc(Str("")),
             EmptyDict, Dict([candidates |-> List(<<>>)]),
             Dict([candidates |-> List(<<Dict([content |-> Dict([parts |-> List(<<>>)])])>>)]),
             Dict([candidates |-> Str("ab")]), Dict([choices |-> PyInt(5)]),
             None, List(<<>>)}}

\* Under Spec, concurrent requests and a few answers.
UpstreamFew ==
    {Failed("500 Server Error: Internal Server Error for url: https://api.lingyiwanwu.com/v1/chat/completions"),
     Replied(ChoicesDoc(Str("Hello"))), Replied(None)}

-----------------------------------------------------------------------------
(* What a client sends to POST /chat.                                      *)

\* No body, or a body that request.json does not take for JSON.
NoJson == [t |-> "nojson"]

TurnTexts == {"User: hi", "Assistant: Where to?"}

RECURSIVE SeqsUpTo(_, _)
SeqsUpTo(S, n) ==
    IF n = 0 THEN {<<>>}
    ELSE LET shorter == SeqsUpTo(S, n - 1)
         IN shorter \cup {Append(q, x) : q \in {p \in shorter : Len(p) = n - 1}, x \in S}

Histories(n) == {List(a) : a \in SeqsUpTo({Str(x) : x \in TurnTexts}, n)}

BodiesOne ==
    {Obj({<<"message", m>>, <<"role", ro>>, <<"conversation_history", h>>}) :
        m \in {Str("Plan a trip to Tokyo"), Str(""), None, PyInt(7), Absent},
        ro \in {Absent, Str("Be brief."), None},
        h \in Histories(MaxHist)
              \cup {Absent, None, Str("abc"), PyInt(0), EmptyDict,
                    List(<<PyInt(7)>>), List(<<Str("User: hi"), None>>)}}
    \cup {NoJson, None, List(<<>>), Str("hi"), PyInt(7), Bool(TRUE)}

BodiesFew ==
    {Dict([message |-> Str("Plan a trip to Tokyo")]),
     Dict([message |-> Str("And Kyoto?"), role |-> Str("Be brief."),
           conversation_history |-> List(<<Str("User: hi"), Str("Assistant: Where to?")>>)]),
     Dict([message |-> Str("x"), conversation_history |-> None]),
     Dict([conversation_history |-> Str("abc")])}

-----------------------------------------------------------------------------
(* The request handler, one action per step at which another request's     *)
(* thread can run in between.                                              *)

Addrs == 1 .. 2 * NumReq

\* The list request.json builds for the body's conversation_history.
parsed_list(r) == 2 * r - 1

\* One module-level list used by every call instead of a new one.
shared_list(r) == 2

\* The list `history + [...]` creates (line 89): a new object at every call.
new_list(r) == 2 * r

\* The contents of a local variable that may refer to a list in the heap.
Deref(x) == IF x.t = "list" THEN List(heap[x.ref]) ELSE x

NoResponse == [status |-> 0, kind |-> "none"]

\* An exception nobody catches reaches Flask, which answers 500 with its
\* HTML error page.
Unhandled == [status |-> 500, kind |-> "html"]

Json(status, o) == [status |-> status, kind |-> "json", json |-> Dict(o)]

Finish(r, resp) ==
    /\ response' = [response EXCEPT ![r] = resp]
    /\ pc' = [pc EXCEPT ![r] = "done"]

\* chat(), lines 158-166: read the body and its three fields.
chat_request(r) ==
    /\ pc[r] = "chat"
    /\ IF body[r].t = "nojson"
       THEN \* request.json: 415 or 400 from Flask, or None (older Flask) and
            \* then AttributeError at data.get
            /\ \E st \in {400, 415, 500} : Finish(r, [status |-> st, kind |-> "html"])
            /\ UNCHANGED <<user_input, role, history, heap>>
       ELSE LET m == PyGet(body[r], "message", Str(""))
                ro == PyGet(body[r], "role", Str(default_role))
                h == PyGet(body[r], "conversation_history", List(<<>>))
            IN IF ~m.ok
               THEN /\ Finish(r, Unhandled)
                    /\ UNCHANGED <<user_input, role, history, heap>>
               ELSE /\ user_input' = [user_input EXCEPT ![r] = m.v]
                    /\ role' = [role EXCEPT ![r] = ro.v]
                    /\ IF h.v.t = "list"
                       THEN /\ history' = [history EXCEPT ![r] = Ref(parsed_list(r))]
                            /\ heap' = [heap EXCEPT ![parsed_list(r)] = h.v.a]
                       ELSE /\ history' = [history EXCEPT ![r] = h.v]
                            /\ heap' = heap
                    /\ pc' = [pc EXCEPT ![r] = "generate_prompt"]
                    /\ response' = response
    /\ UNCHANGED <<body, upstream, prompt, conversation_history, bot_reply,
                   error, outbound, doc, text>>

\* generate_prompt appending to the list it was given (history.append)
\* instead of building a new one.
process_chat_prompt_in_place(r) ==
    /\ pc[r] = "generate_prompt"
    /\ LET g == generate_prompt(user_input[r], role[r], Deref(history[r]))
           target == IF history[r].t = "list" THEN history[r].ref ELSE new_list(r)
       IN IF ~g.ok
          THEN /\ Finish(r, Unhandled)
               /\ UNCHANGED <<prompt, conversation_history, heap>>
          ELSE /\ prompt' = [prompt EXCEPT ![r] = g.v.prompt]
               /\ conversation_history' =
                      [conversation_history EXCEPT ![r] = Ref(target)]
               /\ heap' = [heap EXCEPT ![target] = g.v.conversation_history]
               /\ pc' = [pc EXCEPT ![r] = "call_Yi_api"]
               /\ response' = response
    /\ UNCHANGED <<body, upstream, user_input, role, history, bot_reply, error,
                   outbound, doc, text>>

\* process_chat(), line 142: generate_prompt builds the prompt and a new list.
process_chat_prompt(r) ==
    /\ pc[r] = "generate_prompt"
    /\ LET g == generate_prompt(user_input[r], role[r], Deref(history[r])) IN
       IF ~g.ok
       THEN /\ Finish(r, Unhandled)
            /\ UNCHANGED <<prompt, conversation_history, heap>>
       ELSE /\ prompt' = [prompt EXCEPT ![r] = g.v.prompt]
            /\ conversation_history' =
                   [conversation_history EXCEPT ![r] = Ref(new_list(r))]
            /\ heap' = [heap EXCEPT ![new_list(r)] = g.v.conversation_history]
            /\ pc' = [pc EXCEPT ![r] = "call_Yi_api"]
            /\ response' = response
    /\ UNCHANGED <<body, upstream, user_input, role, history, bot_reply, error,
                   outbound, doc, text>>

YiUrl == "https://api.lingyiwanwu.com/v1/chat/completions"

\* call_Yi_api(), lines 117-129: the POST leaves for the provider.
call_Yi_api_post(r) ==
    /\ pc[r] = "call_Yi_api"
    /\ outbound' = [outbound EXCEPT ![r] =
            Append(@, [url |-> YiUrl, model |-> "yi-large", content |-> prompt[r]])]
    /\ pc' = [pc EXCEPT ![r] = "requests.post"]
    /\ UNCHANGED <<body, upstream, user_input, role, history, prompt,
                   conversation_history, bot_reply, error, response, heap,
                   doc, text>>

\* call_Yi_api with an extract_text that lets the AttributeError of a
\* document that is no object escape: nothing on the way catches it.
call_Yi_api_return_raising(r) ==
    /\ pc[r] = "requests.post"
    /\ LET u == upstream[r]
           failed(detail) ==
               /\ bot_reply' = [bot_reply EXCEPT ![r] = Str(RequestFailedText)]
               /\ error' = [error EXCEPT ![r] = Str(detail)]
               /\ pc' = [pc EXCEPT ![r] = "process_chat"]
               /\ response' = response
       IN CASE u.kind = "error" -> failed(u.detail)
            [] u.kind = "ok" ->
                  IF u.json.t # "dict"
                  THEN /\ Finish(r, Unhandled)
                       /\ UNCHANGED <<bot_reply, error>>
                  ELSE /\ bot_reply' = [bot_reply EXCEPT ![r] = extract_text(u.json)]
                       /\ error' = [error EXCEPT ![r] = None]
                       /\ pc' = [pc EXCEPT ![r] = "process_chat"]
                       /\ response' = response
            [] u.kind = "notjson" ->
                  \E caught \in BOOLEAN :
                      IF caught
                      THEN failed("Expecting value: line 1 column 1 (char 0)")
                      ELSE /\ Finish(r, Unhandled)
                           /\ UNCHANGED <<bot_reply, error>>
    /\ UNCHANGED <<body, upstream, user_input, role, history, prompt,
                   conversation_history, outbound, heap, doc, text>>

\* call_Yi_api(), lines 129-135: the provider's answer comes back.
call_Yi_api_return(r) ==
    /\ pc[r] = "requests.post"
    /\ LET u == upstream[r]
           failed(detail) ==
               /\ bot_reply' = [bot_reply EXCEPT ![r] = Str(RequestFailedText)]
               /\ error' = [error EXCEPT ![r] = Str(detail)]
               /\ pc' = [pc EXCEPT ![r] = "process_chat"]
               /\ response' = response
       IN CASE u.kind = "error" -> failed(u.detail)
            [] u.kind = "ok" ->
                  /\ bot_reply' = [bot_reply EXCEPT ![r] = extract_text(u.json)]
                  /\ error' = [error EXCEPT ![r] = None]
                  /\ pc' = [pc EXCEPT ![r] = "process_chat"]
                  /\ response' = response
            [] u.kind = "notjson" ->
                  \* response.json() raises JSONDecodeError: a RequestException
                  \* since requests 2.27, a plain ValueError before
                  \E caught \in BOOLEAN :
                      IF caught
                      THEN failed("Expecting value: line 1 column 1 (char 0)")
                      ELSE /\ Finish(r, Unhandled)
                           /\ UNCHANGED <<bot_reply, error>>
    /\ UNCHANGED <<body, upstream, user_input, role, history, prompt,
                   conversation_history, outbound, heap, doc, text>>

\* process_chat returning without appending the Assistant turn.
process_chat_reply_no_append(r) ==
    /\ pc[r] = "process_chat"
    /\ IF Truthy(error[r])
       THEN UNCHANGED error
       ELSE error' = [error EXCEPT ![r] = None]
    /\ pc' = [pc EXCEPT ![r] = "jsonify"]
    /\ UNCHANGED <<body, upstream, user_input, role, history, prompt,
                   conversation_history, bot_reply, response, outbound, heap,
                   doc, text>>

\* process_chat(), lines 148-154: on an error return at once, else append
\* the Assistant turn to the list in place and return None for the error.
process_chat_reply(r) ==
    /\ pc[r] = "process_chat"
    /\ IF Truthy(error[r])
       THEN UNCHANGED <<heap, error>>
       ELSE /\ heap' = [heap EXCEPT ![conversation_history[r].ref] =
                           Append(@, Str("Assistant: " \o PyStr(bot_reply[r])))]
            /\ error' = [error EXCEPT ![r] = None]
    /\ pc' = [pc EXCEPT ![r] = "jsonify"]
    /\ UNCHANGED <<body, upstream, user_input, role, history, prompt,
                   conversation_history, bot_reply, response, outbound,
                   doc, text>>

\* chat(), lines 171-177: the envelope.
chat_respond(r) ==
    /\ pc[r] = "jsonify"
    /\ IF Truthy(error[r])
       THEN Finish(r, Json(500, [error |-> error[r], message |-> bot_reply[r]]))
       ELSE Finish(r, Json(200, [reply |-> bot_reply[r],
                                 conversation_history |->
                                     Deref(conversation_history[r])]))
    /\ UNCHANGED <<body, upstream, user_input, role, history, prompt,
                   conversation_history, bot_reply, error, outbound, heap,
                   doc, text>>

\* extract_text called on its own.
extract(d) ==
    /\ doc = d
    /\ text = Unset
    /\ text' = extract_text(d)
    /\ UNCHANGED <<pc, body, upstream, user_input, role, history, prompt,
                   conversation_history, bot_reply, error, response, outbound,
                   heap, doc>>

-----------------------------------------------------------------------------
(* Specifications. *)

Idle(bodies, answers, docs) ==
    /\ body \in bodies
    /\ upstream \in answers
    /\ pc = [r \in Reqs |-> IF body[r] = Absent THEN "off" ELSE "chat"]
    /\ user_input = [r \in Reqs |-> Unset]
    /\ role = [r \in Reqs |-> Unset]
    /\ history = [r \in Reqs |-> Unset]
    /\ prompt = [r \in Reqs |-> ""]
    /\ conversation_history = [r \in Reqs |-> Unset]
    /\ bot_reply = [r \in Reqs |-> Unset]
    /\ error = [r \in Reqs |-> Unset]
    /\ response = [r \in Reqs |-> NoResponse]
    /\ outbound = [r \in Reqs |-> <<>>]
    /\ heap = [a \in Addrs |-> <<>>]
    /\ doc \in docs
    /\ text = Unset

\* Concurrent requests, each with its own body and its own upstream answer.
Init == Idle([Reqs -> BodiesFew], [Reqs -> UpstreamFew], {Unset})

\* One request, with every kind of body and of upstream answer.
InitOne ==
    Idle({[r \in Reqs |-> IF r = 1 THEN b ELSE Absent] : b \in BodiesOne},
         {[r \in Reqs |-> IF r = 1 THEN u ELSE NoCall] : u \in UpstreamOne},
         {Unset})

\* No request: extract_text on every document.
InitExtract ==
    Idle({[r \in Reqs |-> Absent]}, {[r \in Reqs |-> NoCall]}, Docs)

Next ==
    \E r \in Reqs :
        \/ chat_request(r)
        \/ process_chat_prompt(r)
        \/ call_Yi_api_post(r)
        \/ call_Yi_api_return(r)
        \/ process_chat_reply(r)
        \/ chat_respond(r)

NextExtract == \E d \in Docs : extract(d)

Spec == Init /\ [][Next]_vars
SpecOne == InitOne /\ [][Next]_vars
SpecExtract == InitExtract /\ [][NextExtract]_vars

-----------------------------------------------------------------------------
(* Shapes of a document, as the claims about extract_text name them.       *)

HasKey(d, k) == d.t = "dict" /\ k \in DOMAIN d.o
IsNonEmptyList(x) == x.t = "list" /\ x.a # <<>>

\* `candidates` is there and is [].
CandidatesEmpty(d) == HasKey(d, "candidates") /\ d.o["candidates"] = List(<<>>)

\* `candidates` is missing or [].
NoCandidates(d) == d.t = "dict" /\ (~HasKey(d, "candidates") \/ CandidatesEmpty(d))

\* candidates[0].content.parts is there.
HasParts(d) ==
    /\ HasKey(d, "candidates")
    /\ IsNonEmptyList(d.o["candidates"])
    /\ HasKey(d.o["candidates"].a[1], "content")
    /\ HasKey(d.o["candidates"].a[1].o["content"], "parts")

PartsOf(d) == d.o["candidates"].a[1].o["content"].o["parts"]

PartsEmpty(d) == HasParts(d) /\ PartsOf(d) = List(<<>>)

\* candidates[0].content.parts[0].text is there.
HasGeminiText(d) ==
    /\ HasParts(d)
    /\ IsNonEmptyList(PartsOf(d))
    /\ HasKey(PartsOf(d).a[1], "text")

GeminiText(d) == PartsOf(d).a[1].o["text"]

\* `choices` is missing or [].
NoChoices(d) ==
    d.t = "dict" /\ (~HasKey(d, "choices") \/ d.o["choices"] = List(<<>>))

\* choices[0].message.content is there.
HasChoicesContent(d) ==
    /\ HasKey(d, "choices")
    /\ IsNonEmptyList(d.o["choices"])
    /\ HasKey(d.o["choices"].a[1], "message")
    /\ HasKey(d.o["choices"].a[1].o["message"], "content")

ChoicesContent(d) == d.o["choices"].a[1].o["message"].o["content"]

Extracted == text # Unset

-----------------------------------------------------------------------------
(* Claims about extract_text, under SpecExtract.                           *)

\* C4, as stated: for a document whose `candidates` is present but empty, or
\* whose candidates[0].content.parts is empty, extract_text returns a
\* clarification fallback that is not the generic "couldn't generate" one.
C4_EmptyGivesClarification ==
    (Extracted /\ (CandidatesEmpty(doc) \/ PartsEmpty(doc)))
        => /\ text \in {Str(NoPartsText), Str(ClarifyText)}
           /\ text # Str(NoChoicesText)

\* C4, amended: with candidates[0].content.parts empty the result is the
\* "trouble finding the right words" fallback, which is not the generic one;
\* with `candidates` present but empty extract_text goes on to `choices` as
\* if `candidates` were missing: the generic fallback when `choices` is
\* missing or empty, choices[0].message.content when that is there.
C4_EmptyPartsOrFallThrough ==
    Extracted =>
        /\ PartsEmpty(doc) => (text = Str(NoPartsText) /\ text # Str(NoChoicesText))
        /\ (CandidatesEmpty(doc) /\ NoChoices(doc)) => text = Str(NoChoicesText)
        /\ (CandidatesEmpty(doc) /\ HasChoicesContent(doc)) => text = ChoicesContent(doc)

C4_Witness ==
    /\ Extracted
    /\ doc = Dict([candidates |-> List(<<>>)])
    /\ text = Str(NoChoicesText)

\* C5, as stated: a non-empty `candidates` with a non-empty `parts` gives
\* candidates[0].content.parts[0].text whatever `choices` is; otherwise a
\* non-empty `choices` gives choices[0].message.content; with neither key
\* the result is the generic fallback.
C5_PriorityOrder ==
    Extracted =>
        /\ HasGeminiText(doc) => text = GeminiText(doc)
        /\ (~HasGeminiText(doc) /\ HasChoicesContent(doc)) => text = ChoicesContent(doc)
        /\ (doc.t = "dict" /\ ~HasKey(doc, "candidates") /\ ~HasKey(doc, "choices"))
              => text = Str(NoChoicesText)

\* C5, amended: `choices` is consulted only when `candidates` is missing or
\* empty; a non-empty `candidates` whose `parts` is empty gives the
\* "trouble finding the right words" fallback whatever `choices` is.
C5_PriorityOrderAmended ==
    Extracted =>
        /\ HasGeminiText(doc) => text = GeminiText(doc)
        /\ (NoCandidates(doc) /\ HasChoicesContent(doc)) => text = ChoicesContent(doc)
        /\ (PartsEmpty(doc) /\ HasChoicesContent(doc)) => text = Str(NoPartsText)
        /\ (doc.t = "dict" /\ ~HasKey(doc, "candidates") /\ ~HasKey(doc, "choices"))
              => text = Str(NoChoicesText)

C5_Witness ==
    /\ Extracted
    /\ HasGeminiText(doc)
    /\ HasChoicesContent(doc)
    /\ GeminiText(doc) = Str("Paris is lovely")
    /\ ChoicesContent(doc) = Str("Hello")
    /\ text = Str("Paris is lovely")

\* C6, as stated: for every JSON value extract_text returns a text string.
C6_ReturnsString == Extracted => text.t = "str"

-----------------------------------------------------------------------------
(* What a request asked for and what came of it, as the claims about the   *)
(* endpoint name them.                                                     *)

Supplied(b, k, default) == IF HasKey(b, k) THEN b.o[k] ELSE default

\* The message m, the persona, and the turns h the client supplied (none
\* when the field is missing or null).
MessageOf(b) == Supplied(b, "message", Str(""))
PersonaOf(b) == Supplied(b, "role", Str(default_role))
TurnsOf(b) ==
    LET h == Supplied(b, "conversation_history", List(<<>>))
    IN IF h.t = "list" THEN h.a ELSE <<>>

Done(r) == pc[r] = "done"
Called(r) == outbound[r] # <<>>
PromptBuilt(r) == conversation_history[r] # Unset

IsEnvelope(resp, status, keys) ==
    /\ resp.kind = "json"
    /\ resp.status = status
    /\ DOMAIN resp.json.o = keys

EndsWith(str, suffix) ==
    /\ Len(str) >= Len(suffix)
    /\ SubSeq(str, Len(str) - Len(suffix) + 1, Len(str)) = suffix

RECURSIVE TurnLines(_)
\* Every turn on a line of its own, each followed by a newline.
TurnLines(turns) ==
    IF turns = <<>> THEN ""
    ELSE TurnLines(SubSeq(turns, 1, Len(turns) - 1)) \o turns[Len(turns)].s \o "\n"

-----------------------------------------------------------------------------
(* Claims about POST /chat, under SpecOne.                                 *)

\* C1, as stated: whenever the upstream call of a request fails, with any
\* error detail including the empty string, the response is 500 with a body
\* of `error` (the detail) and `message` (the fixed fallback).
C1_FailureGives500 ==
    \A r \in Reqs :
        (Done(r) /\ Called(r) /\ upstream[r].kind = "error")
            => /\ IsEnvelope(response[r], 500, {"error", "message"})
               /\ response[r].json.o["error"] = Str(upstream[r].detail)
               /\ response[r].json.o["message"] = Str(RequestFailedText)

\* C2, as stated: whatever the body and whatever the upstream does, the
\* response is the envelope {reply, conversation_history} with status 200 or
\* the envelope {error, message} with status 500.
C2_AlwaysEnvelope ==
    \A r \in Reqs :
        Done(r) => \/ IsEnvelope(response[r], 200, {"reply", "conversation_history"})
                   \/ IsEnvelope(response[r], 500, {"error", "message"})

\* C3: when the upstream call of a request with message m and history h
\* succeeds with extracted reply x, the response is 200 with reply x and
\* conversation_history h, "User: " + m, "Assistant: " + x, of length
\* len(h) + 2.
C3_SuccessExtendsHistory ==
    \A r \in Reqs :
        (Done(r) /\ Called(r) /\ upstream[r].kind = "ok")
            => LET h == TurnsOf(body[r])
                   x == bot_reply[r]
                   turns == h \o <<Str("User: " \o PyStr(MessageOf(body[r]))),
                                   Str("Assistant: " \o PyStr(x))>>
               IN /\ IsEnvelope(response[r], 200, {"reply", "conversation_history"})
                  /\ response[r].json.o["reply"] = x
                  /\ response[r].json.o["conversation_history"] = List(turns)
                  /\ Len(response[r].json.o["conversation_history"].a) = Len(h) + 2
                  /\ SubSeq(response[r].json.o["conversation_history"].a, 1, Len(h)) = h

C3_Witness ==
    \E r \in Reqs :
        /\ Done(r)
        /\ upstream[r] = Replied(GeminiDoc(Str("Paris is lovely")))
        /\ body[r] = Dict([message |-> Str("Plan a trip to Tokyo")])
        /\ response[r] =
              Json(200, [reply |-> Str("Paris is lovely"),
                         conversation_history |->
                             List(<<Str("User: Plan a trip to Tokyo"),
                                    Str("Assistant: Paris is lovely")>>)])

\* C7: once generate_prompt has run, the new list is the supplied history
\* with "User: " + userInput appended (until the Assistant turn follows it),
\* the prompt is persona, newline, the turns of that list joined by newlines,
\* "\nAssistant:", and so ends with "User: " + userInput + "\nAssistant:";
\* the list the caller passed in still holds what the client sent, also
\* after the Assistant turn was appended.
C7_PromptAndHistory ==
    \A r \in Reqs :
        PromptBuilt(r) =>
            LET h == TurnsOf(body[r])
                user == Str("User: " \o PyStr(MessageOf(body[r])))
                updated == Append(h, user)
                built == heap[conversation_history[r].ref]
            IN /\ Len(built) >= Len(h) + 1
               /\ SubSeq(built, 1, Len(h) + 1) = updated
               /\ pc[r] \in {"call_Yi_api", "requests.post", "process_chat"}
                     => built = updated
               /\ prompt[r] = PyStr(PersonaOf(body[r])) \o "\n" \o TurnLines(h)
                                  \o user.s \o "\nAssistant:"
               /\ EndsWith(prompt[r], user.s \o "\nAssistant:")
               /\ history[r].t = "list" => heap[history[r].ref] = h

C7_Witness ==
    \E r \in Reqs :
        /\ Done(r)
        /\ response[r].status = 200
        /\ MessageOf(body[r]) = Str("")
        /\ Len(TurnsOf(body[r])) = 2
        /\ Len(heap[conversation_history[r].ref]) = 4
        /\ heap[history[r].ref] = TurnsOf(body[r])
        /\ EndsWith(prompt[r], "\nAssistant: Where to?\nUser: \nAssistant:")

\* The documents of the two shapes the provider is known to send.
Expected(d) ==
    \/ HasGeminiText(d) /\ GeminiText(d).t = "str"
    \/ HasChoicesContent(d) /\ ChoicesContent(d).t = "str"

\* C8: when the call succeeds but the body is not of an expected shape, the
\* response is 200, `reply` is what extract_text chose, that reply is the
\* last turn of the returned history as "Assistant: " + reply, and there is
\* no `error` field.
C8_BadShapeStill200 ==
    \A r \in Reqs :
        (Done(r) /\ Called(r) /\ upstream[r].kind = "ok" /\ ~Expected(upstream[r].json))
            => /\ IsEnvelope(response[r], 200, {"reply", "conversation_history"})
               /\ response[r].json.o["reply"] = extract_text(upstream[r].json)
               /\ LET turns == response[r].json.o["conversation_history"].a
                  IN turns[Len(turns)]
                        = Str("Assistant: " \o PyStr(extract_text(upstream[r].json)))

C8_Witness ==
    \E r \in Reqs :
        /\ Done(r)
        /\ upstream[r] = Replied(None)
        /\ response[r].status = 200
        /\ response[r].json.o["reply"]
              = Str("Something went wrong: 'NoneType' object has no attribute 'get'")

\* C9, as stated: every request makes exactly one outbound call, to the Yi
\* endpoint, with the prompt built for it.
C9_ExactlyOneCall ==
    \A r \in Reqs :
        Done(r) => /\ Len(outbound[r]) = 1
                   /\ outbound[r][1].url = YiUrl
                   /\ outbound[r][1].content = prompt[r]

-----------------------------------------------------------------------------
(* Claims about concurrent requests, under Spec.                           *)

\* What a request with body b gets when the provider answers u, worked out
\* from b and u alone.
Alone(b, u) ==
    LET g == generate_prompt(MessageOf(b), PersonaOf(b),
                             Supplied(b, "conversation_history", List(<<>>)))
    IN IF b.t # "dict" \/ ~g.ok THEN Unhandled
       ELSE IF u.kind = "error"
       THEN Json(500, [error |-> Str(u.detail), message |-> Str(RequestFailedText)])
       ELSE LET x == extract_text(u.json)
            IN Json(200, [reply |-> x,
                          conversation_history |->
                              List(Append(g.v.conversation_history,
                                          Str("Assistant: " \o PyStr(x))))])

PromptAlone(b) ==
    generate_prompt(MessageOf(b), PersonaOf(b),
                    Supplied(b, "conversation_history", List(<<>>))).v.prompt

\* C10: under any interleaving, the prompt a request sends and the response
\* it gets are those it gets when handled alone: they depend on its own body
\* and on the answer to its own call only.
C10_Independent ==
    \A r \in Reqs :
        /\ Called(r) => outbound[r] = <<[url |-> YiUrl, model |-> "yi-large",
                                         content |-> PromptAlone(body[r])]>>
        /\ Done(r) => response[r] = Alone(body[r], upstream[r])

C10_Witness ==
    \E r1, r2 \in Reqs :
        /\ body[r1] # body[r2]
        /\ Done(r1)
        /\ response[r1].status = 200
        /\ Len(response[r1].json.o["conversation_history"].a) = 4
        /\ pc[r2] = "jsonify"
        /\ TurnsOf(body[r2]) = <<>>
        /\ Len(heap[conversation_history[r2].ref]) = 2

====
